---- MODULE Spec2Model ----
(***************************************************************************)
(* SEIRS disinformation-spread engine (layer2_sim/model): construction,    *)
(* two-phase stepping, run loop and metrics of DisinformationModel and     *)
(* DisinformationAgent.                                                    *)
(*                                                                         *)
(* Number representation.  Python floats are modelled in fixed point:      *)
(*   traits (nfc, trust, cb, ia)            in twentieths   (0.85 = 17)    *)
(*   narrative parameters, base rates       in hundredths   (0.45 = 45)    *)
(*   archetype shares                       in 1/10000      (0.20 = 2000)  *)
(*   probabilities and random() draws       in 1/10000      (1.0 = 10000)  *)
(* Products are exact integers; a quotient is taken once, rounded toward   *)
(* zero, where the value is brought to the 1/10000 grid.                   *)
(***************************************************************************)
EXTENDS Integers, Sequences, FiniteSets, TLC

VARIABLES
    eng,    \* the engine under test: every field of DisinformationModel and its agents
    tape,   \* the values drawn so far from the generator seeded with the engine's seed
    snap,   \* history: the agents as they were when the current step() began
    twin    \* a second engine built from the same inputs and seed (SpecPair only)

vars == <<eng, tape, snap, twin>>

-----------------------------------------------------------------------------
(* Bounds of the exploration *)

\* how many values may be drawn from the random stream in one behaviour
MaxDraws == 9
\* how many step() executions one behaviour may hold
MaxSteps == 4
\* the largest max_steps passed to run()
MaxRun == 3
\* the largest number of infected neighbours of the agent whose rates are probed
MaxNeighbors == 3
\* the largest number of steps in the life of the single agent that is followed
MaxCommits == 6

-----------------------------------------------------------------------------
(* Scales and small helpers *)

PScale == 100 * 100          \* probabilities: units of 1/10000
ShareScale == 100 * 100      \* shares: units of 1/10000

Min(a, b) == IF a < b THEN a ELSE b
Max(a, b) == IF a > b THEN a ELSE b

\* np.clip(x, lo, hi)
clip(x, lo, hi) == IF x < lo THEN lo ELSE IF x > hi THEN hi ELSE x

\* Python int(): truncation toward zero of num/den (den > 0)
int(num, den) == IF num >= 0 THEN num \div den ELSE -((-num) \div den)

RECURSIVE SumSeq(_)
SumSeq(s) == IF s = <<>> THEN 0 ELSE Head(s) + SumSeq(Tail(s))

Range(s) == {s[i] : i \in 1..Len(s)}

-----------------------------------------------------------------------------
(* archetypes.py *)

ArchetypeOrder ==
    <<"immune", "superspreader", "moderate", "critical_thinker", "cynical_contrarian">>

ArchetypeNames == Range(ArchetypeOrder)

ARCHETYPES ==
    [a \in ArchetypeNames |->
        CASE a = "immune" ->
               [nfc |-> 17, trust |-> 16, cb |-> 4, ia |-> 6, distribution |-> 2000]
          [] a = "superspreader" ->
               [nfc |-> 3, trust |-> 4, cb |-> 17, ia |-> 18, distribution |-> 1500]
          [] a = "moderate" ->
               [nfc |-> 10, trust |-> 10, cb |-> 10, ia |-> 10, distribution |-> 5000]
          [] a = "critical_thinker" ->
               [nfc |-> 18, trust |-> 10, cb |-> 5, ia |-> 7, distribution |-> 1000]
          [] a = "cynical_contrarian" ->
               [nfc |-> 12, trust |-> 3, cb |-> 14, ia |-> 15, distribution |-> 500]]

\* A distribution is a Python dict: a sequence of <<name, share>> in insertion order.
DistNames(distribution) == {distribution[i][1] : i \in 1..Len(distribution)}

DistTotal(distribution) ==
    SumSeq([i \in 1..Len(distribution) |-> distribution[i][2]])

\* abs(total - 1.0) < 0.001
ToleranceNum == 10

validate_archetype_distribution(distribution) ==
    LET total == DistTotal(distribution)
        diff == IF total >= ShareScale THEN total - ShareScale ELSE ShareScale - total
    IN diff < ToleranceNum

\* counts = {archetype: int(population * proportion)}; the residual goes to
\* counts['moderate'], which raises KeyError when the dict has no such key.
FloorCounts(population, distribution) ==
    [i \in 1..Len(distribution) |->
        <<distribution[i][1], int(population * distribution[i][2], ShareScale)>>]

AdjustKey == "moderate"

get_archetype_counts(population, distribution) ==
    LET counts == FloorCounts(population, distribution)
        total == SumSeq([i \in 1..Len(counts) |-> counts[i][2]])
        Adjusted(delta) ==
            [i \in 1..Len(counts) |->
                IF counts[i][1] = AdjustKey
                THEN <<counts[i][1], counts[i][2] + delta>>
                ELSE counts[i]]
    IN IF total < population
       THEN IF AdjustKey \in DistNames(distribution)
            THEN [raised |-> "", counts |-> Adjusted(population - total)]
            ELSE [raised |-> "KeyError", counts |-> <<>>]
       ELSE IF total > population
       THEN IF AdjustKey \in DistNames(distribution)
            THEN [raised |-> "", counts |-> Adjusted(-(total - population))]
            ELSE [raised |-> "KeyError", counts |-> <<>>]
       ELSE [raised |-> "", counts |-> counts]

-----------------------------------------------------------------------------
(* narrative.py *)

NarrativeFields ==
    <<"baseline_transmission", "emotional_intensity", "identity_weight", "initial_seeding">>

\* Narrative.__post_init__: the first field, in the order of the list, whose value
\* is not in [0, 1]; "" when all four are.
RECURSIVE FirstBadField(_, _)
FirstBadField(params, k) ==
    IF k > Len(NarrativeFields) THEN ""
    ELSE IF ~(0 <= params[NarrativeFields[k]] /\ params[NarrativeFields[k]] <= 100)
         THEN NarrativeFields[k]
         ELSE FirstBadField(params, k + 1)

\* a Narrative that checks nothing
Narrative_post_init_unchecked(params) == ""

Narrative_post_init(params) == FirstBadField(params, 1)

\* beta0 * (1 + Emo), in units of 1/10000
effective_transmission(narrative) ==
    narrative.baseline_transmission * (100 + narrative.emotional_intensity)

-----------------------------------------------------------------------------
(* agent.py: transition probabilities, each in units of 1/10000 *)

\* effect and susceptibility in units of 1/20000
_calculate_alpha(a, narrative) ==
    LET effect == -600 * (a.need_for_cognition - 10)
                  + 0 * (a.institutional_trust - 10)
                  + 400 * (a.confirmation_bias - 10)
                  + 3 * (a.identity_alignment - 10) * narrative.identity_weight
        susceptibility == clip(20000 + effect, 2000, 40000)
        alpha == effective_transmission(narrative) * susceptibility
    IN clip(int(alpha, 20000), 0, PScale)

_calculate_sigma(a, narrative, sigma_base) ==
    LET effect == -700 * (a.need_for_cognition - 10)
                  - 500 * (a.institutional_trust - 10)
                  + 600 * (a.confirmation_bias - 10)
                  + 10 * (a.identity_alignment - 10) * narrative.identity_weight
        multiplier == clip(20000 + effect, 2000, 60000)
        sigma == sigma_base * multiplier
    IN clip(int(sigma, 200), 0, PScale)

\* boosts in units of 1/200, penalties in units of 1/20000
_calculate_gamma(a, narrative, gamma_base) ==
    LET boosts == 200 + 8 * a.need_for_cognition + 6 * a.institutional_trust
        penalties == 20000 + 500 * a.confirmation_bias
                     + 8 * a.identity_alignment * narrative.identity_weight
    IN clip(int(PScale * gamma_base * boosts, penalties), 0, PScale)

\* a relapse rate clipped to [0, 1] like the other three rates
_calculate_omega_unit_clip(a, narrative, omega_base) ==
    LET amplifications == 2000 + 60 * (20 - a.institutional_trust)
                          + a.identity_alignment * narrative.identity_weight
        protections == 50 + a.need_for_cognition
    IN clip(int(5 * omega_base * amplifications, 2 * protections), 0, PScale)

\* amplifications in units of 1/2000, protections in units of 1/50
_calculate_omega(a, narrative, omega_base) ==
    LET amplifications == 2000 + 60 * (20 - a.institutional_trust)
                          + a.identity_alignment * narrative.identity_weight
        protections == 50 + a.need_for_cognition
    IN clip(int(5 * omega_base * amplifications, 2 * protections), 0, 2000)

\* (1 - alpha) ** k, in units of 1/10000
RECURSIVE PowComplement(_, _)
PowComplement(alpha, k) ==
    IF k = 0 THEN PScale
    ELSE int(PowComplement(alpha, k - 1) * (PScale - alpha), PScale)

\* the exposure probabilities of the k contacts added up
p_exposure_sum(alpha, k) == k * alpha

p_exposure(alpha, k) == PScale - PowComplement(alpha, k)

-----------------------------------------------------------------------------
(* The random stream and the network generator *)

\* random.random() in [0, 1): the two ends of its range on the 1/10000 grid
DrawSet == {0, PScale - 1}

\* One cell of the stream: what the call that consumes it returns, a float for
\* random() (u) or the chosen members for sample() (pick).
RandomCells == {[u |-> x, pick |-> {}] : x \in DrawSet}

KSubsets(S, n) == {x \in SUBSET S : Cardinality(x) = n}

SampleCells(pool, n) == {[u |-> 0, pick |-> x] : x \in KSubsets(pool, n)}

\* nodes that choose their targets freely; later nodes attach to the m oldest
FreeNodes == 3

AttachChoices(s, m) ==
    IF s <= FreeNodes THEN KSubsets(0..(s - 1), m) ELSE {0..(m - 1)}

\* networkx.barabasi_albert_graph(n, m, seed): the first m + 1 nodes form a star
\* (centre 0, or centre m in older releases), each further node s attaches to
\* m distinct earlier nodes.
BAGraphs(n, m) ==
    LET cores == {{{0, j} : j \in 1..m}, {{m, j} : j \in 0..(m - 1)}}
        free == (m + 1)..Min(n - 1, FreeNodes)
        fixed == Max(m + 1, FreeNodes + 1)..(n - 1)
        choices == {f \in [free -> SUBSET (0..FreeNodes)] :
                        \A s \in free : f[s] \in AttachChoices(s, m)}
    IN {core \cup UNION {{{s, t} : t \in f[s]} : s \in free}
             \cup {{s, t} : s \in fixed, t \in 0..(m - 1)} :
            core \in cores, f \in choices}

neighbors(G, node) == {n \in UNION G : {node, n} \in G /\ n # node}

degree(G, node) == Cardinality(neighbors(G, node))

-----------------------------------------------------------------------------
(* agent.py: DisinformationAgent *)

States == {"S", "E", "I", "R"}

\* DisinformationAgent.__init__
DisinformationAgent(unique_id, archetype) ==
    [unique_id |-> unique_id,
     archetype |-> archetype,
     need_for_cognition |-> ARCHETYPES[archetype].nfc,
     institutional_trust |-> ARCHETYPES[archetype].trust,
     confirmation_bias |-> ARCHETYPES[archetype].cb,
     identity_alignment |-> ARCHETYPES[archetype].ia,
     state |-> "S",
     next_state |-> "None",
     infection_count |-> 0,
     recovery_count |-> 0,
     relapse_count |-> 0,
     time_in_I |-> 0,
     current_I_duration |-> 0]

\* the neighbours that will be in I: one that has already computed its next
\* state counts by that state
_get_infected_neighbors_pending(m, a) ==
    {nid \in neighbors(m.G, a.unique_id) :
        \E j \in 1..Len(m.agents) :
            /\ m.agents[j].unique_id = nid
            /\ (IF m.agents[j].next_state = "None"
                THEN m.agents[j].state ELSE m.agents[j].next_state) = "I"}

\* the neighbour ids of agent a whose agent is in state I
_get_infected_neighbors(m, a) ==
    {nid \in neighbors(m.G, a.unique_id) :
        \E j \in 1..Len(m.agents) :
            m.agents[j].unique_id = nid /\ m.agents[j].state = "I"}

\* S with no infected neighbour returns before any draw
NeedsDraw(m, i) ==
    m.agents[i].state # "S" \/ _get_infected_neighbors(m, m.agents[i]) # {}

\* exposure that skips E
_check_exposure_to_I(m, a, u) ==
    LET infected_neighbors == _get_infected_neighbors(m, a)
        alpha == _calculate_alpha(a, m.narrative)
        k == Cardinality(infected_neighbors)
    IN IF infected_neighbors = {} THEN "S"
       ELSE IF u < p_exposure(alpha, k) THEN "I" ELSE "S"

\* exposure at rate alpha with or without an infected neighbour
_check_exposure_spontaneous(m, a, u) ==
    IF u < _calculate_alpha(a, m.narrative) THEN "E" ELSE "S"

_check_exposure(m, a, u) ==
    LET infected_neighbors == _get_infected_neighbors(m, a)
        alpha == _calculate_alpha(a, m.narrative)
        k == Cardinality(infected_neighbors)
    IN IF infected_neighbors = {} THEN "S"
       ELSE IF u < p_exposure(alpha, k) THEN "E" ELSE "S"

_check_adoption(m, a, u) ==
    IF u < _calculate_sigma(a, m.narrative, m.sigma_base) THEN "I" ELSE "E"

_check_correction(m, a, u) ==
    IF u < _calculate_gamma(a, m.narrative, m.gamma_base) THEN "R" ELSE "I"

_check_relapse(m, a, u) ==
    IF u < _calculate_omega(a, m.narrative, m.omega_base) THEN "S" ELSE "R"

\* a single-pass update: the candidate is written to state at once
agent_step_in_place(m, i, u) ==
    LET a == m.agents[i]
        nxt == CASE a.state = "S" -> _check_exposure(m, a, u)
                 [] a.state = "E" -> _check_adoption(m, a, u)
                 [] a.state = "I" -> _check_correction(m, a, u)
                 [] a.state = "R" -> _check_relapse(m, a, u)
    IN [m EXCEPT !.agents[i].next_state = nxt,
                 !.agents[i].state = nxt,
                 !.pos = IF NeedsDraw(m, i) THEN @ + 1 ELSE @]

\* DisinformationAgent.step of agent i with the draw u: only next_state is written
agent_step(m, i, u) ==
    LET a == m.agents[i]
        nxt == CASE a.state = "S" -> _check_exposure(m, a, u)
                 [] a.state = "E" -> _check_adoption(m, a, u)
                 [] a.state = "I" -> _check_correction(m, a, u)
                 [] a.state = "R" -> _check_relapse(m, a, u)
    IN [m EXCEPT !.agents[i].next_state = nxt,
                 !.pos = IF NeedsDraw(m, i) THEN @ + 1 ELSE @]

\* advance keeping a net count: leaving I takes the agent out of the total again
agent_advance_net(m, i) ==
    LET a == m.agents[i]
        leaving == a.state = "I" /\ a.next_state = "R"
        n == IF a.next_state = "None" THEN m
             ELSE [m EXCEPT
                     !.agents[i].state = a.next_state,
                     !.agents[i].next_state = "None",
                     !.cumulative_infected =
                         IF a.state # "I" /\ a.next_state = "I" THEN @ + 1 ELSE @]
    IN [n EXCEPT !.cumulative_infected = IF leaving THEN @ - 1 ELSE @]

\* advance that counts an infection as soon as the agent is exposed
agent_advance_counts_exposure(m, i) ==
    LET a == m.agents[i]
        old_state == a.state
        new_state == a.next_state
        entering == old_state # "I" /\ new_state = "I"
        exposed == old_state = "S" /\ new_state = "E"
        b == [a EXCEPT
                !.state = new_state,
                !.next_state = "None",
                !.infection_count = IF exposed THEN @ + 1 ELSE @,
                !.recovery_count =
                    IF old_state = "I" /\ new_state = "R" THEN @ + 1 ELSE @,
                !.relapse_count =
                    IF old_state = "R" /\ new_state = "S" THEN @ + 1 ELSE @,
                !.time_in_I = IF new_state = "I" THEN @ + 1 ELSE @,
                !.current_I_duration =
                    IF new_state = "I"
                    THEN (IF entering THEN 0 ELSE @) + 1
                    ELSE @]
    IN IF a.next_state = "None" THEN m
       ELSE [m EXCEPT !.agents[i] = b,
                      !.cumulative_infected = IF entering THEN @ + 1 ELSE @]

\* advance that lets the spell duration run on from the previous spell
agent_advance_no_reset(m, i) ==
    LET a == m.agents[i]
        old_state == a.state
        new_state == a.next_state
        entering == old_state # "I" /\ new_state = "I"
        b == [a EXCEPT
                !.state = new_state,
                !.next_state = "None",
                !.infection_count = IF entering THEN @ + 1 ELSE @,
                !.recovery_count =
                    IF old_state = "I" /\ new_state = "R" THEN @ + 1 ELSE @,
                !.relapse_count =
                    IF old_state = "R" /\ new_state = "S" THEN @ + 1 ELSE @,
                !.time_in_I = IF new_state = "I" THEN @ + 1 ELSE @,
                !.current_I_duration = IF new_state = "I" THEN @ + 1 ELSE @]
    IN IF a.next_state = "None" THEN m
       ELSE [m EXCEPT !.agents[i] = b,
                      !.cumulative_infected = IF entering THEN @ + 1 ELSE @]

\* advance that leaves the committed value in next_state
agent_advance_keeps_pending(m, i) ==
    LET a == m.agents[i]
        old_state == a.state
        new_state == a.next_state
        entering == old_state # "I" /\ new_state = "I"
        b == [a EXCEPT
                !.state = new_state,
                !.infection_count = IF entering THEN @ + 1 ELSE @,
                !.recovery_count =
                    IF old_state = "I" /\ new_state = "R" THEN @ + 1 ELSE @,
                !.relapse_count =
                    IF old_state = "R" /\ new_state = "S" THEN @ + 1 ELSE @,
                !.time_in_I = IF new_state = "I" THEN @ + 1 ELSE @,
                !.current_I_duration =
                    IF new_state = "I"
                    THEN (IF entering THEN 0 ELSE @) + 1
                    ELSE @]
    IN IF a.next_state = "None" THEN m
       ELSE [m EXCEPT !.agents[i] = b,
                      !.cumulative_infected = IF entering THEN @ + 1 ELSE @]

\* advance in which an agent entering I exposes its susceptible neighbours itself
agent_advance_pushes_exposure(m, i) ==
    LET a == m.agents[i]
        old_state == a.state
        new_state == a.next_state
        entering == old_state # "I" /\ new_state = "I"
        b == [a EXCEPT
                !.state = new_state,
                !.next_state = "None",
                !.infection_count = IF entering THEN @ + 1 ELSE @,
                !.recovery_count =
                    IF old_state = "I" /\ new_state = "R" THEN @ + 1 ELSE @,
                !.relapse_count =
                    IF old_state = "R" /\ new_state = "S" THEN @ + 1 ELSE @,
                !.time_in_I = IF new_state = "I" THEN @ + 1 ELSE @,
                !.current_I_duration =
                    IF new_state = "I"
                    THEN (IF entering THEN 0 ELSE @) + 1
                    ELSE @]
        pushed(c) == IF /\ entering
                        /\ c.unique_id \in neighbors(m.G, a.unique_id)
                        /\ c.state = "S"
                     THEN [c EXCEPT !.state = "E"] ELSE c
    IN IF a.next_state = "None" THEN m
       ELSE [m EXCEPT !.agents = [j \in 1..Len(m.agents) |->
                                     IF j = i THEN b ELSE pushed(m.agents[j])],
                      !.cumulative_infected = IF entering THEN @ + 1 ELSE @]

\* advance that counts an agent in cumulative_infected only the first time it
\* is in I
agent_advance_counts_once(m, i) ==
    LET a == m.agents[i]
        old_state == a.state
        new_state == a.next_state
        entering == old_state # "I" /\ new_state = "I"
        first == entering /\ a.infection_count = 0 /\ a.recovery_count = 0
        b == [a EXCEPT
                !.state = new_state,
                !.next_state = "None",
                !.infection_count = IF entering THEN @ + 1 ELSE @,
                !.recovery_count =
                    IF old_state = "I" /\ new_state = "R" THEN @ + 1 ELSE @,
                !.relapse_count =
                    IF old_state = "R" /\ new_state = "S" THEN @ + 1 ELSE @,
                !.time_in_I = IF new_state = "I" THEN @ + 1 ELSE @,
                !.current_I_duration =
                    IF new_state = "I"
                    THEN (IF entering THEN 0 ELSE @) + 1
                    ELSE @]
    IN IF a.next_state = "None" THEN m
       ELSE [m EXCEPT !.agents[i] = b,
                      !.cumulative_infected = IF first THEN @ + 1 ELSE @]

\* advance that counts time in I only for an agent that was in I already
agent_advance_counts_remaining(m, i) ==
    LET a == m.agents[i]
        old_state == a.state
        new_state == a.next_state
        entering == old_state # "I" /\ new_state = "I"
        remaining == old_state = "I" /\ new_state = "I"
        b == [a EXCEPT
                !.state = new_state,
                !.next_state = "None",
                !.infection_count = IF entering THEN @ + 1 ELSE @,
                !.recovery_count =
                    IF old_state = "I" /\ new_state = "R" THEN @ + 1 ELSE @,
                !.relapse_count =
                    IF old_state = "R" /\ new_state = "S" THEN @ + 1 ELSE @,
                !.time_in_I = IF remaining THEN @ + 1 ELSE @,
                !.current_I_duration =
                    IF entering THEN 0 ELSE IF remaining THEN @ + 1 ELSE @]
    IN IF a.next_state = "None" THEN m
       ELSE [m EXCEPT !.agents[i] = b,
                      !.cumulative_infected = IF entering THEN @ + 1 ELSE @]

\* DisinformationAgent.advance of agent i
agent_advance(m, i) ==
    LET a == m.agents[i]
        old_state == a.state
        new_state == a.next_state
        entering == old_state # "I" /\ new_state = "I"
        b == [a EXCEPT
                !.state = new_state,
                !.next_state = "None",
                !.infection_count = IF entering THEN @ + 1 ELSE @,
                !.recovery_count =
                    IF old_state = "I" /\ new_state = "R" THEN @ + 1 ELSE @,
                !.relapse_count =
                    IF old_state = "R" /\ new_state = "S" THEN @ + 1 ELSE @,
                !.time_in_I = IF new_state = "I" THEN @ + 1 ELSE @,
                !.current_I_duration =
                    IF new_state = "I"
                    THEN (IF entering THEN 0 ELSE @) + 1
                    ELSE @]
    IN IF a.next_state = "None" THEN m
       ELSE [m EXCEPT !.agents[i] = b,
                      !.cumulative_infected = IF entering THEN @ + 1 ELSE @]

-----------------------------------------------------------------------------
(* model.py: DisinformationModel, construction *)

NoNarrative ==
    [baseline_transmission |-> 0, emotional_intensity |-> 0,
     identity_weight |-> 0, initial_seeding |-> 0]

\* a mean as the pair <<sum, number of terms>>
Mean(s) == <<SumSeq(s), Len(s)>>

\* what a call has returned to its caller; nothing while no call is returning
NoReturn ==
    [R0 |-> "", mean_alpha |-> <<0, 0>>, mean_sigma |-> <<0, 0>>,
     mean_gamma |-> <<0, 0>>, mean_degree |-> <<0, 0>>, infectious_period |-> <<0, 0>>]

\* The object as __init__ receives it: the arguments, and no attribute set yet.
NewEngine(cfg) ==
    [pc |-> "new", error |-> "", cfg |-> cfg, ret |-> NoReturn,
     narrative |-> NoNarrative, population |-> 0, m_edges |-> 0,
     seeding_strategy |-> "", sigma_base |-> 0, gamma_base |-> 0, omega_base |-> 0,
     cumulative_infected |-> 0, current_step |-> 0,
     has_G |-> FALSE, G |-> {}, agents |-> <<>>, rows |-> <<>>,
     pos |-> 0, idx |-> 0,
     in_run |-> FALSE, max_steps |-> 0, run_done |-> 0, run_from |-> 0]

Raise(m, what) == [m EXCEPT !.pc = "raised", !.error = what]

\* __init__, lines 62-66: super().__init__(seed) and the distribution check
init_validate(m) ==
    IF ~validate_archetype_distribution(m.cfg.archetype_dist)
    THEN Raise(m, "Archetype distribution must sum to 1.0")
    ELSE [m EXCEPT !.pc = "params"]

\* __init__, lines 69-81: Narrative(**narrative_params) and the plain attributes
init_params(m) ==
    LET bad == Narrative_post_init(m.cfg.narrative_params)
    IN IF bad # ""
       THEN Raise(m, bad)
       ELSE [m EXCEPT !.pc = "network",
                      !.narrative = m.cfg.narrative_params,
                      !.population = m.cfg.population,
                      !.m_edges = m.cfg.m_edges,
                      !.seeding_strategy = m.cfg.seeding_strategy,
                      !.sigma_base = m.cfg.sigma_base,
                      !.gamma_base = m.cfg.gamma_base,
                      !.omega_base = m.cfg.omega_base,
                      !.cumulative_infected = 0,
                      !.current_step = 0]

\* _create_network: networkx rejects m < 1 and m >= n
_create_network(m, graph) ==
    IF m.m_edges < 1 \/ m.m_edges >= m.population
    THEN Raise(m, "NetworkXError")
    ELSE [m EXCEPT !.pc = "agents", !.has_G = TRUE, !.G = graph]

\* the agents of _create_agents, in creation order: range(count) of each
\* archetype in the order of the counts dict, ids counting up from 0
CreatedAgents(counts) ==
    LET n(k) == Max(0, counts[k][2])
        before(k) == SumSeq([j \in 1..(k - 1) |-> n(j)])
        total == before(Len(counts) + 1)
        bucket(i) == CHOOSE k \in 1..Len(counts) : before(k) < i /\ i <= before(k) + n(k)
    IN [i \in 1..total |-> DisinformationAgent(i - 1, counts[bucket(i)][1])]

_create_agents(m) ==
    LET archetype_counts == get_archetype_counts(m.population, m.cfg.archetype_dist)
    IN IF archetype_counts.raised # ""
       THEN Raise(m, archetype_counts.raised)
       ELSE [m EXCEPT !.pc = "seed", !.agents = CreatedAgents(archetype_counts.counts)]

\* sorted(degrees.items(), key=degree, reverse=True): a stable sort, so nodes of
\* equal degree keep the order of G.degree(), which is the order of the node ids
\* a descending sort that puts an item before the items of equal degree
RECURSIVE InsertSortedBeforeTies(_, _)
InsertSortedBeforeTies(sorted, item) ==
    IF sorted = <<>> THEN <<item>>
    ELSE IF Head(sorted)[2] <= item[2] THEN <<item>> \o sorted
         ELSE <<Head(sorted)>> \o InsertSortedBeforeTies(Tail(sorted), item)

RECURSIVE InsertSorted(_, _)
InsertSorted(sorted, item) ==
    IF sorted = <<>> THEN <<item>>
    ELSE IF Head(sorted)[2] < item[2] THEN <<item>> \o sorted
         ELSE <<Head(sorted)>> \o InsertSorted(Tail(sorted), item)

RECURSIVE SortByDegree(_, _)
SortByDegree(items, k) ==
    IF k = 0 THEN <<>> ELSE InsertSorted(SortByDegree(items, k - 1), items[k])

sorted_nodes(m) ==
    LET items == [i \in 1..m.population |-> <<i - 1, degree(m.G, i - 1)>>]
    IN SortByDegree(items, Len(items))

\* the seed count without the replacement of 0 by 1
n_seed_unguarded(m) == int(m.population * m.narrative.initial_seeding, 100)

\* n_seed = int(population * initial_seeding), 0 replaced by 1
n_seed(m) ==
    LET n == int(m.population * m.narrative.initial_seeding, 100)
    IN IF n = 0 THEN 1 ELSE n

\* archetype_proportional: for the archetypes k.. of ARCHETYPES in order, the
\* possible sequences of sample() results
RECURSIVE ProportionalCells(_, _)
ProportionalCells(m, k) ==
    IF k > Len(ArchetypeOrder) THEN {<<>>}
    ELSE LET archetype_name == ArchetypeOrder[k]
             archetype_agents ==
                 {i \in 1..Len(m.agents) : m.agents[i].archetype = archetype_name}
             n_archetype_seed ==
                 int(n_seed(m) * ARCHETYPES[archetype_name].distribution, ShareScale)
             rest == ProportionalCells(m, k + 1)
         IN IF n_archetype_seed > 0 /\ archetype_agents # {}
            THEN {<<c>> \o r :
                    c \in SampleCells(archetype_agents,
                                      Min(n_archetype_seed, Cardinality(archetype_agents))),
                    r \in rest}
            ELSE rest

\* the agents (by position in the agent list) a strategy may select, with the
\* stream cells the selection consumes
SeedChoices(m) ==
    CASE m.seeding_strategy = "random" ->
            {[cells |-> <<c>>, seed_agents |-> c.pick] :
                c \in SampleCells(1..Len(m.agents), n_seed(m))}
      [] m.seeding_strategy = "hub_targeted" ->
            LET top == SubSeq(sorted_nodes(m), 1, Min(n_seed(m), m.population))
                seed_ids == {top[j][1] : j \in 1..Len(top)}
            IN {[cells |-> <<>>,
                 seed_agents |-> {i \in 1..Len(m.agents) :
                                    m.agents[i].unique_id \in seed_ids}]}
      [] m.seeding_strategy = "archetype_proportional" ->
            {[cells |-> cs, seed_agents |-> UNION {cs[j].pick : j \in 1..Len(cs)}] :
                cs \in ProportionalCells(m, 1)}
      [] OTHER -> {[cells |-> <<>>, seed_agents |-> {}]}

KnownStrategies == {"random", "hub_targeted", "archetype_proportional"}

\* seeding that sets the selected agents to I without counting them
_seed_initial_infections_uncounted(m, choice) ==
    IF m.seeding_strategy \notin KnownStrategies
    THEN Raise(m, "Unknown seeding strategy")
    ELSE [m EXCEPT
            !.pc = "collect0",
            !.pos = @ + Len(choice.cells),
            !.agents = [i \in 1..Len(m.agents) |->
                          IF i \in choice.seed_agents
                          THEN [m.agents[i] EXCEPT !.state = "I"]
                          ELSE m.agents[i]]]

\* _seed_initial_infections with the selection made: each selected agent is set
\* to I and counted once
_seed_initial_infections(m, choice) ==
    IF m.seeding_strategy \notin KnownStrategies
    THEN Raise(m, "Unknown seeding strategy")
    ELSE [m EXCEPT
            !.pc = "collect0",
            !.pos = @ + Len(choice.cells),
            !.agents = [i \in 1..Len(m.agents) |->
                          IF i \in choice.seed_agents
                          THEN [m.agents[i] EXCEPT !.state = "I"]
                          ELSE m.agents[i]],
            !.cumulative_infected = @ + Cardinality(choice.seed_agents)]

_count_state(m, state) ==
    Cardinality({i \in 1..Len(m.agents) : m.agents[i].state = state})

_count_infected_archetype(m, archetype) ==
    Cardinality({i \in 1..Len(m.agents) :
                    m.agents[i].state = "I" /\ m.agents[i].archetype = archetype})

\* one row of the model reporters of _setup_datacollector
Row(m) ==
    [Susceptible |-> _count_state(m, "S"),
     Exposed |-> _count_state(m, "E"),
     Infected |-> _count_state(m, "I"),
     Recovered |-> _count_state(m, "R"),
     Cumulative_Infected |-> m.cumulative_infected,
     Infected_by |-> [a \in ArchetypeNames |-> _count_infected_archetype(m, a)]]

\* datacollector.collect(self)
collect(m) == [m EXCEPT !.rows = Append(@, Row(m))]

\* __init__, lines 93-94
init_collect(m) == [collect(m) EXCEPT !.pc = "idle"]

-----------------------------------------------------------------------------
(* model.py: step, run, metrics *)

\* step(), before its first loop
step_begin(m) ==
    [m EXCEPT !.pc = IF Len(m.agents) = 0 THEN "collect" ELSE "compute", !.idx = 1]

\* one iteration of "for agent in self.agents: agent.step()"
compute_one(m, u) ==
    LET n == agent_step(m, m.idx, u)
    IN IF m.idx < Len(m.agents)
       THEN [n EXCEPT !.idx = m.idx + 1]
       ELSE [n EXCEPT !.pc = "commit", !.idx = 1]

\* one iteration of "for agent in self.agents: agent.advance()"
commit_one(m) ==
    LET n == agent_advance(m, m.idx)
    IN IF m.idx < Len(m.agents)
       THEN [n EXCEPT !.idx = m.idx + 1]
       ELSE [n EXCEPT !.pc = "collect", !.idx = 0]

\* a step that collects a row on either side of the counter increment
step_collect_twice(m) ==
    [collect(collect(m)) EXCEPT !.current_step = @ + 1,
                                !.run_done = IF m.in_run THEN @ + 1 ELSE @,
                                !.pc = IF m.in_run THEN "run_check" ELSE "idle"]

\* step(), lines 217-219
step_collect(m) ==
    [collect(m) EXCEPT !.current_step = @ + 1,
                       !.run_done = IF m.in_run THEN @ + 1 ELSE @,
                       !.pc = IF m.in_run THEN "run_check" ELSE "idle"]

\* the end test looking at I alone
_epidemic_ended_I_only(m) == _count_state(m, "I") = 0

_epidemic_ended(m) == _count_state(m, "E") = 0 /\ _count_state(m, "I") = 0

\* run(max_steps), up to the first step() of the loop; range(0) is empty
run_begin(m, max_steps) ==
    LET n == [m EXCEPT !.max_steps = max_steps, !.run_done = 0,
                       !.run_from = m.current_step]
    IN IF max_steps <= 0
       THEN [n EXCEPT !.pc = "run_return"]
       ELSE step_begin([n EXCEPT !.in_run = TRUE])

\* a loop that tests its counter one iteration late
run_check_one_more(m) ==
    IF _epidemic_ended(m) \/ m.run_done > m.max_steps
    THEN [m EXCEPT !.pc = "run_return", !.in_run = FALSE]
    ELSE step_begin(m)

\* run(), after a step(): break when the epidemic has ended, else the next
\* iteration of range(max_steps)
run_check(m) ==
    IF _epidemic_ended(m) \/ m.run_done >= m.max_steps
    THEN [m EXCEPT !.pc = "run_return", !.in_run = FALSE]
    ELSE step_begin(m)

\* run() returns: its locals are gone
run_return(m) ==
    [m EXCEPT !.pc = "idle", !.max_steps = 0, !.run_done = 0, !.run_from = 0]

\* peak metrics that report the last row holding the maximum
get_peak_metrics_last(m) ==
    LET infected == [r \in 1..Len(m.rows) |-> m.rows[r].Infected]
        max_infected == CHOOSE x \in Range(infected) : \A y \in Range(infected) : y <= x
        time_to_peak == CHOOSE r \in 1..Len(infected) :
                            /\ infected[r] = max_infected
                            /\ \A q \in (r + 1)..Len(infected) : infected[q] # max_infected
    IN [max_infected |-> max_infected,
        max_infected_pct |-> <<max_infected, m.population>>,
        time_to_peak |-> time_to_peak - 1,
        attack_rate |-> <<m.rows[Len(m.rows)].Cumulative_Infected, m.population>>]

\* df['Infected'].max(), .idxmax() (first occurrence), last Cumulative_Infected
get_peak_metrics(m) ==
    LET infected == [r \in 1..Len(m.rows) |-> m.rows[r].Infected]
        max_infected == CHOOSE x \in Range(infected) : \A y \in Range(infected) : y <= x
        time_to_peak == CHOOSE r \in 1..Len(infected) :
                            /\ infected[r] = max_infected
                            /\ \A q \in 1..(r - 1) : infected[q] # max_infected
    IN [max_infected |-> max_infected,
        max_infected_pct |-> <<max_infected, m.population>>,
        time_to_peak |-> time_to_peak - 1,
        attack_rate |-> <<m.rows[Len(m.rows)].Cumulative_Infected, m.population>>]

\* the tuple calculate_R0 returns.  A mean is the pair <<sum, count>> (alpha,
\* sigma, gamma in 1/10000); infectious_period = 1 / mean_gamma is the pair
\* <<count * PScale, sum of gamma>>, np.inf the pair <<1, 0>>.  R0 is the product
\* an estimate over the agents that can still be infected: those now in S
R0Value_susceptible(m) ==
    LET sus == SelectSeq(m.agents, LAMBDA a : a.state = "S")
        alphas == [i \in 1..Len(sus) |-> _calculate_alpha(sus[i], m.narrative)]
        sigmas == [i \in 1..Len(sus) |->
                      _calculate_sigma(sus[i], m.narrative, m.sigma_base)]
        gammas == [i \in 1..Len(sus) |->
                      _calculate_gamma(sus[i], m.narrative, m.gamma_base)]
        mean_alpha == Mean(alphas)
        mean_sigma == Mean(sigmas)
        mean_gamma == Mean(gammas)
        mean_degree == Mean([k \in 1..m.population |-> degree(m.G, k - 1)])
        infectious_period ==
            IF mean_gamma[1] > 0 THEN <<mean_gamma[2] * PScale, mean_gamma[1]>>
            ELSE <<1, 0>>
    IN [R0 |-> IF mean_gamma[1] > 0 THEN "finite"
               ELSE IF mean_alpha[1] = 0 \/ mean_sigma[1] = 0 \/ mean_degree[1] = 0
                    THEN "nan" ELSE "inf",
        mean_alpha |-> mean_alpha,
        mean_sigma |-> mean_sigma,
        mean_gamma |-> mean_gamma,
        mean_degree |-> mean_degree,
        infectious_period |-> infectious_period]

\* mean_alpha * mean_sigma * mean_degree * infectious_period: "finite" when
\* mean_gamma > 0; otherwise the product with np.inf, which is inf for a
\* positive factor and nan for a factor 0.
R0Value(m) ==
    LET alphas == [i \in 1..Len(m.agents) |-> _calculate_alpha(m.agents[i], m.narrative)]
        sigmas == [i \in 1..Len(m.agents) |->
                      _calculate_sigma(m.agents[i], m.narrative, m.sigma_base)]
        gammas == [i \in 1..Len(m.agents) |->
                      _calculate_gamma(m.agents[i], m.narrative, m.gamma_base)]
        mean_alpha == Mean(alphas)
        mean_sigma == Mean(sigmas)
        mean_gamma == Mean(gammas)
        mean_degree == Mean([k \in 1..m.population |-> degree(m.G, k - 1)])
        infectious_period ==
            IF mean_gamma[1] > 0 THEN <<mean_gamma[2] * PScale, mean_gamma[1]>>
            ELSE <<1, 0>>
    IN [R0 |-> IF mean_gamma[1] > 0 THEN "finite"
               ELSE IF mean_alpha[1] = 0 \/ mean_sigma[1] = 0 \/ mean_degree[1] = 0
                    THEN "nan" ELSE "inf",
        mean_alpha |-> mean_alpha,
        mean_sigma |-> mean_sigma,
        mean_gamma |-> mean_gamma,
        mean_degree |-> mean_degree,
        infectious_period |-> infectious_period]

\* an estimate taken over a sample of the agents drawn from self.random
calculate_R0_sampling(m) ==
    [m EXCEPT !.pc = "calculate_R0", !.ret = R0Value(m), !.pos = @ + 1]

\* calculate_R0(), up to its return statement: the engine as the call leaves
\* it, with the value about to be returned
calculate_R0(m) ==
    [m EXCEPT !.pc = "calculate_R0", !.ret = R0Value(m)]

\* calculate_R0() returns: the tuple is the caller's
calculate_R0_return(m) ==
    [m EXCEPT !.pc = "idle", !.ret = NoReturn]

-----------------------------------------------------------------------------
(* The inputs explored *)

Narr(b, e, w, p) ==
    [baseline_transmission |-> b, emotional_intensity |-> e,
     identity_weight |-> w, initial_seeding |-> p]

\* the test script's narrative, with four seeding fractions, and a narrative at
\* the top of every range
ValidNarratives ==
    {Narr(45, 70, 75, 6), Narr(45, 70, 75, 50), Narr(45, 70, 75, 70),
     Narr(100, 100, 100, 100)}

\* one field out of [0, 1] each, and two at once
BadNarratives ==
    {Narr(105, 70, 75, 6), Narr(45, -10, 75, 6), Narr(45, 70, 150, 6),
     Narr(45, 70, 75, 101), Narr(45, 120, 75, -1)}

DefaultDist ==
    [i \in 1..Len(ArchetypeOrder) |->
        <<ArchetypeOrder[i], ARCHETYPES[ArchetypeOrder[i]].distribution>>]

ValidDists ==
    {DefaultDist,
     <<<<"immune", 5000>>, <<"moderate", 5000>>>>,
     <<<<"superspreader", 10000>>>>,
     <<<<"immune", 5000>>, <<"superspreader", 5000>>>>,
     <<<<"moderate", 5009>>, <<"superspreader", 5000>>>>}

\* Scenario C (sum 1.1), and sums just outside the tolerance on either side
BadDists ==
    {<<<<"immune", 5000>>, <<"moderate", 6000>>>>,
     <<<<"immune", 5000>>, <<"moderate", 5011>>>>,
     <<<<"immune", 5000>>, <<"moderate", 4989>>>>}

Strategies == KnownStrategies \cup {"bogus"}

Config(n, me, narr, dist, strat) ==
    [population |-> n, m_edges |-> me, narrative_params |-> narr,
     archetype_dist |-> dist, seeding_strategy |-> strat,
     sigma_base |-> 30, gamma_base |-> 5, omega_base |-> 2]

\* every combination of small inputs: explored through construction
SmallConfigs ==
    {Config(n, me, narr, dist, strat) :
        n \in {2, 3}, me \in {1, 2}, narr \in ValidNarratives,
        dist \in ValidDists, strat \in Strategies}

\* rejected inputs, each combined with every strategy
RejectedConfigs ==
    {Config(3, 1, narr, dist, strat) :
        narr \in ValidNarratives \cup BadNarratives,
        dist \in ValidDists \cup BadDists, strat \in Strategies}

\* a population large enough for the floors of a distribution within the
\* tolerance to add up to more than the population
LargeConfigs ==
    {Config(2000, 1, Narr(45, 70, 75, 0),
            <<<<"immune", 5000>>, <<"superspreader", 5008>>, <<"moderate", 0>>>>,
            "archetype_proportional")}

BuildConfigs == SmallConfigs \cup RejectedConfigs \cup LargeConfigs

\* the inputs whose runs are explored step by step
RunConfigs ==
    {Config(n, 1, narr, dist, strat) :
        n \in {2, 3},
        narr \in {Narr(45, 70, 75, 6), Narr(100, 100, 100, 100)},
        dist \in {<<<<"immune", 5000>>, <<"moderate", 5000>>>>,
                  <<<<"moderate", 5009>>, <<"superspreader", 5000>>>>},
        strat \in {"random", "hub_targeted"}}

\* inputs with base rates and a baseline transmission of 0 next to the defaults
RateConfigs ==
    {[Config(n, 1, Narr(b, 70, 75, 6), dist, "random")
         EXCEPT !.sigma_base = s, !.gamma_base = g] :
        n \in {2, 3}, b \in {0, 45}, s \in {0, 30}, g \in {0, 5},
        dist \in {<<<<"immune", 5000>>, <<"moderate", 5000>>>>, DefaultDist}}

\* what step() can leave in next_state: the value a _check_* function returns
Outcomes(state) ==
    CASE state = "S" -> {"S", "E"}
      [] state = "E" -> {"E", "I"}
      [] state = "I" -> {"I", "R"}
      [] state = "R" -> {"R", "S"}

\* one agent of a model, fresh or seeded, and the model's cumulative_infected
LifeInputs ==
    {[pc |-> "compute", current_step |-> 0, cumulative_infected |-> 0,
      agents |-> <<DisinformationAgent(0, archetype)>>] :
        archetype \in {"moderate", "superspreader"}}
    \cup
    {[pc |-> "compute", current_step |-> 0, cumulative_infected |-> 1,
      agents |-> <<[DisinformationAgent(0, archetype) EXCEPT !.state = "I"]>>] :
        archetype \in {"moderate", "superspreader"}}

\* DisinformationAgent.step with the outcome of its _check_* function given
life_step(q, outcome) ==
    [q EXCEPT !.pc = "commit", !.agents[1].next_state = outcome]

\* DisinformationAgent.advance, at the end of the step
life_advance(q) ==
    [agent_advance(q, 1) EXCEPT !.pc = "compute", !.current_step = @ + 1]

\* trait values over [0, 1], in twentieths
TraitGrid == {0, 10, 20}

\* base rates, in hundredths: negative, 0, the defaults' order, 1.0 and 3.0
BaseRates == {-10, 0, 5, 30, 100, 300}

\* DisinformationAgent(model, 0, 'moderate', nfc, trust, cb, ia)
ProbeAgent(nfc, trust, cb, ia) ==
    [DisinformationAgent(0, "moderate") EXCEPT
        !.need_for_cognition = nfc, !.institutional_trust = trust,
        !.confirmation_bias = cb, !.identity_alignment = ia]

\* one agent, the narrative and base rates of its model, and the results
ProbeInputs ==
    {[pc |-> "probe",
      agent |-> ProbeAgent(nfc, trust, cb, ia),
      narrative |-> Narr(b, e, w, 6),
      sigma_base |-> r, gamma_base |-> r, omega_base |-> r,
      k |-> 0, alpha |-> 0, sigma |-> 0, gamma |-> 0, omega |-> 0, p |-> 0] :
        nfc \in TraitGrid, trust \in TraitGrid, cb \in TraitGrid, ia \in TraitGrid,
        b \in {0, 100}, e \in {0, 100}, w \in {0, 100}, r \in BaseRates}

calculate_rates(q) ==
    LET alpha == _calculate_alpha(q.agent, q.narrative)
    IN [q EXCEPT !.pc = "rates",
                 !.alpha = alpha,
                 !.sigma = _calculate_sigma(q.agent, q.narrative, q.sigma_base),
                 !.gamma = _calculate_gamma(q.agent, q.narrative, q.gamma_base),
                 !.omega = _calculate_omega(q.agent, q.narrative, q.omega_base),
                 !.k = 1,
                 !.p = p_exposure(alpha, 1)]

add_infected_neighbor(q) ==
    [q EXCEPT !.k = @ + 1, !.p = p_exposure(q.alpha, q.k + 1)]

-----------------------------------------------------------------------------
(* The state machine *)

Start(configs) ==
    /\ \E cfg \in configs :
          /\ eng = NewEngine(cfg)
          /\ twin = [NewEngine(cfg) EXCEPT !.pc = "off"]
    /\ tape = <<>>
    /\ snap = <<>>

Init == Start(RunConfigs)

\* draws taken from an unseeded generator: any value, whatever was drawn before
ConsumesUnseeded(pos, cells) == TRUE

\* cells consumed from position pos on: read from the tape where it is written,
\* drawn fresh (and written) beyond its end
Consumes(pos, cells) ==
    \A j \in 1..Len(cells) : pos + j <= Len(tape) => cells[j] = tape[pos + j]

TapeAfter(pos, cells) ==
    IF pos + Len(cells) <= Len(tape) THEN tape
    ELSE SubSeq(tape, 1, pos) \o cells

InitValidate ==
    /\ eng.pc = "new"
    /\ eng' = init_validate(eng)
    /\ UNCHANGED <<tape, snap, twin>>

InitParams ==
    /\ eng.pc = "params"
    /\ eng' = init_params(eng)
    /\ UNCHANGED <<tape, snap, twin>>

CreateNetwork ==
    /\ eng.pc = "network"
    /\ \E graph \in (IF eng.m_edges < 1 \/ eng.m_edges >= eng.population
                     THEN {{}} ELSE BAGraphs(eng.population, eng.m_edges)) :
          eng' = _create_network(eng, graph)
    /\ UNCHANGED <<tape, snap, twin>>

CreateAgents ==
    /\ eng.pc = "agents"
    /\ eng' = _create_agents(eng)
    /\ UNCHANGED <<tape, snap, twin>>

SeedInitialInfections ==
    /\ eng.pc = "seed"
    /\ \E choice \in SeedChoices(eng) :
          /\ Consumes(eng.pos, choice.cells)
          /\ eng' = _seed_initial_infections(eng, choice)
          /\ tape' = TapeAfter(eng.pos, choice.cells)
    /\ UNCHANGED <<snap, twin>>

InitCollect ==
    /\ eng.pc = "collect0"
    /\ eng' = init_collect(eng)
    /\ UNCHANGED <<tape, snap, twin>>

\* a step may begin while the stream has room for one draw per agent
CanStep(m) == m.pos + Len(m.agents) <= MaxDraws /\ m.current_step < MaxSteps

CallStep ==
    /\ eng.pc = "idle"
    /\ CanStep(eng)
    /\ eng' = step_begin(eng)
    /\ snap' = eng.agents
    /\ UNCHANGED <<tape, twin>>

CallRun ==
    /\ eng.pc = "idle"
    /\ CanStep(eng)
    /\ \E max_steps \in 0..MaxRun : eng' = run_begin(eng, max_steps)
    /\ snap' = eng.agents
    /\ UNCHANGED <<tape, twin>>

AgentStep ==
    /\ eng.pc = "compute"
    /\ \E c \in RandomCells :
          LET cells == IF NeedsDraw(eng, eng.idx) THEN <<c>> ELSE <<>>
          IN /\ Consumes(eng.pos, cells)
             /\ eng' = compute_one(eng, c.u)
             /\ tape' = TapeAfter(eng.pos, cells)
    /\ UNCHANGED <<snap, twin>>

AgentAdvance ==
    /\ eng.pc = "commit"
    /\ eng' = commit_one(eng)
    /\ UNCHANGED <<tape, snap, twin>>

StepCollect ==
    /\ eng.pc = "collect"
    /\ eng' = step_collect(eng)
    /\ UNCHANGED <<tape, snap, twin>>

RunCheck ==
    /\ eng.pc = "run_check"
    /\ ~_epidemic_ended(eng) /\ eng.run_done < eng.max_steps => CanStep(eng)
    /\ eng' = run_check(eng)
    /\ snap' = eng.agents
    /\ UNCHANGED <<tape, twin>>

RunReturn ==
    /\ eng.pc = "run_return"
    /\ eng' = run_return(eng)
    /\ UNCHANGED <<tape, snap, twin>>

CalculateR0 ==
    /\ eng.pc = "idle"
    /\ eng' = calculate_R0(eng)
    /\ UNCHANGED <<tape, snap, twin>>

ReturnR0 ==
    /\ eng.pc = "calculate_R0"
    /\ eng' = calculate_R0_return(eng)
    /\ UNCHANGED <<tape, snap, twin>>

\* the followed agent computes its next state: either outcome of its draw
LifeStep ==
    /\ eng.pc = "compute"
    /\ eng.current_step < MaxCommits
    /\ \E outcome \in Outcomes(eng.agents[1].state) : eng' = life_step(eng, outcome)
    /\ UNCHANGED <<tape, snap, twin>>

\* the followed agent commits
LifeAdvance ==
    /\ eng.pc = "commit"
    /\ eng' = life_advance(eng)
    /\ UNCHANGED <<tape, snap, twin>>

\* the agent's four rates are computed, and p for one infected neighbour
CalculateRates ==
    /\ eng.pc = "probe"
    /\ eng' = calculate_rates(eng)
    /\ UNCHANGED <<tape, snap, twin>>

\* one more neighbour of the agent is in I
AddInfectedNeighbor ==
    /\ eng.pc = "rates"
    /\ eng.k < MaxNeighbors
    /\ eng' = add_infected_neighbor(eng)
    /\ UNCHANGED <<tape, snap, twin>>

Build ==
    \/ InitValidate
    \/ InitParams
    \/ CreateNetwork
    \/ CreateAgents
    \/ SeedInitialInfections
    \/ InitCollect

Next ==
    \/ InitValidate
    \/ InitParams
    \/ CreateNetwork
    \/ CreateAgents
    \/ SeedInitialInfections
    \/ InitCollect
    \/ CallStep
    \/ CallRun
    \/ AgentStep
    \/ AgentAdvance
    \/ StepCollect
    \/ RunCheck
    \/ RunReturn
    \/ CalculateR0
    \/ ReturnR0

Spec == Init /\ [][Next]_vars

\* construction alone, over the wider set of inputs
InitBuild == Start(BuildConfigs)

SpecBuild == InitBuild /\ [][Build]_vars

\* The life of one agent over MaxCommits steps, whatever its draws and its
\* neighbours make of each step
NextLife ==
    \/ LifeStep
    \/ LifeAdvance

InitLife ==
    /\ eng \in LifeInputs
    /\ tape = <<>>
    /\ snap = <<>>
    /\ twin = [pc |-> "off"]

SpecLife == InitLife /\ [][NextLife]_vars

\* The four rate functions and the compound exposure probability applied to a
\* single agent with any traits, under any narrative and base rates
ProbeNext ==
    \/ CalculateRates
    \/ AddInfectedNeighbor

InitProbe ==
    /\ eng \in ProbeInputs
    /\ tape = <<>>
    /\ snap = <<>>
    /\ twin = [pc |-> "off"]

SpecProbe == InitProbe /\ [][ProbeNext]_vars

\* construction and calculate_R0 calls, over inputs with other base rates
InitR0 == Start(RateConfigs)

NextR0 ==
    \/ Build
    \/ CalculateR0
    \/ ReturnR0

SpecR0 == InitR0 /\ [][NextR0]_vars

-----------------------------------------------------------------------------
(* A second engine, built from the same inputs and the same seed once the first
   is left alone, and driven by whole calls *)

\* DisinformationModel(...) as one call, on the graph networkx returns for
\* (population, m_edges, seed)
ConstructOutcomes(cfg, graph) ==
    LET m1 == init_validate(NewEngine(cfg))
        m2 == IF m1.pc = "raised" THEN m1 ELSE init_params(m1)
        m3 == IF m2.pc = "raised" THEN m2 ELSE _create_network(m2, graph)
        m4 == IF m3.pc = "raised" THEN m3 ELSE _create_agents(m3)
    IN IF m4.pc = "raised" THEN {[m |-> m4, cells |-> <<>>]}
       ELSE {[m |-> LET m5 == _seed_initial_infections(m4, choice)
                    IN IF m5.pc = "raised" THEN m5 ELSE init_collect(m5),
              cells |-> choice.cells] : choice \in SeedChoices(m4)}

RECURSIVE ComputePass(_)
ComputePass(o) ==
    IF o.m.pc # "compute" THEN {o}
    ELSE IF NeedsDraw(o.m, o.m.idx)
         THEN UNION {ComputePass([m |-> compute_one(o.m, c.u),
                                  cells |-> Append(o.cells, c)]) : c \in RandomCells}
         ELSE ComputePass([m |-> compute_one(o.m, 0), cells |-> o.cells])

RECURSIVE CommitPass(_)
CommitPass(m) == IF m.pc # "commit" THEN m ELSE CommitPass(commit_one(m))

\* step() as one call
StepOutcomes(m) ==
    {[m |-> step_collect(CommitPass(o.m)), cells |-> o.cells] :
        o \in ComputePass([m |-> step_begin(m), cells |-> <<>>])}

TwinBuild ==
    /\ twin.pc = "off"
    /\ eng.pc = "idle"
    /\ \E o \in ConstructOutcomes(twin.cfg, eng.G) :
          /\ Consumes(0, o.cells)
          /\ twin' = o.m
          /\ tape' = TapeAfter(0, o.cells)
    /\ UNCHANGED <<eng, snap>>

TwinStep ==
    /\ twin.pc = "idle"
    /\ twin.current_step < eng.current_step
    /\ \E o \in StepOutcomes(twin) :
          /\ Consumes(twin.pos, o.cells)
          /\ twin' = o.m
          /\ tape' = TapeAfter(twin.pos, o.cells)
    /\ UNCHANGED <<eng, snap>>

NextPair ==
    \/ twin.pc = "off" /\ Next
    \/ TwinBuild
    \/ TwinStep

SpecPair == Init /\ [][NextPair]_vars

-----------------------------------------------------------------------------
(* Properties *)

Constructed(m) == m.pc \notin {"off", "new", "params", "network", "agents", "seed",
                              "collect0", "raised"}

LastRow(m) == m.rows[Len(m.rows)]

\* the agents of snapshot s that are neighbours of agent a in the graph and in I
InfectedAtStart(m, s, a) ==
    {j \in 1..Len(s) : s[j].unique_id \in neighbors(m.G, a.unique_id) /\ s[j].state = "I"}

\* C1: while step() is in its compute pass every agent's state and counters and
\* cumulative_infected are what they were when the step began, only next_state
\* is written; an S agent's candidate is E only if a neighbour was in I when the
\* step began; in the commit pass the agents not yet committed still hold their
\* start-of-step state.
C1_TwoPhaseUpdate ==
    /\ eng.pc = "compute" =>
          /\ \A i \in 1..Len(eng.agents) :
                [eng.agents[i] EXCEPT !.next_state = "None"] = snap[i]
          /\ eng.cumulative_infected = LastRow(eng).Cumulative_Infected
          /\ \A i \in 1..(eng.idx - 1) :
                snap[i].state = "S" /\ eng.agents[i].next_state = "E"
                    => InfectedAtStart(eng, snap, snap[i]) # {}
          /\ \A i \in eng.idx..Len(eng.agents) : eng.agents[i].next_state = "None"
    /\ eng.pc = "commit" =>
          \A i \in eng.idx..Len(eng.agents) :
              [eng.agents[i] EXCEPT !.next_state = "None"] = snap[i]

\* an agent iterated later is exposed by a neighbour that has already decided,
\* earlier in the same pass, to leave I
C1_Witness ==
    /\ eng.pc = "compute"
    /\ \E i, j \in 1..Len(eng.agents) :
          /\ j < i /\ i < eng.idx
          /\ snap[j].state = "I" /\ eng.agents[j].next_state = "R"
          /\ snap[i].state = "S" /\ eng.agents[i].next_state = "E"
          /\ InfectedAtStart(eng, snap, snap[i]) = {j}

Succ(state) ==
    CASE state = "S" -> "E" [] state = "E" -> "I" [] state = "I" -> "R" [] state = "R" -> "S"

\* C3: every agent's state is one of S, E, I, R, and from the beginning of a
\* step() to the beginning of the next each agent keeps its state or moves to
\* the next state of the cycle S, E, I, R, S.
C3_CyclicTransitions ==
    /\ \A i \in 1..Len(eng.agents) : eng.agents[i].state \in States
    /\ snap # <<>> =>
          \A i \in 1..Len(eng.agents) :
              eng.agents[i].state \in {snap[i].state, Succ(snap[i].state)}

\* one step has moved one agent R -> S while another moved S -> E
C3_Witness ==
    /\ eng.pc = "collect"
    /\ \E i, j \in 1..Len(eng.agents) :
          /\ snap[i].state = "R" /\ eng.agents[i].state = "S"
          /\ snap[j].state = "S" /\ eng.agents[j].state = "E"

\* C2 (as claimed): every time-series row has S + E + I + R = population.
C2_RowsSumToPopulation ==
    \A r \in 1..Len(eng.rows) :
        eng.rows[r].Susceptible + eng.rows[r].Exposed
          + eng.rows[r].Infected + eng.rows[r].Recovered = eng.population

\* C4 (as claimed): attack_rate is the last row's cumulative_infected over the
\* population and lies in [0, 1].
C4_AttackRateInUnitInterval ==
    eng.pc = "idle" =>
        LET attack_rate == get_peak_metrics(eng).attack_rate
        IN /\ attack_rate = <<LastRow(eng).Cumulative_Infected, eng.population>>
           /\ 0 <= attack_rate[1] /\ attack_rate[1] <= attack_rate[2]

\* the rows of the steps this run() has executed, the last one excluded
EarlierRunRows(m) == {r \in (m.run_from + 2)..(m.run_from + m.run_done) : r < Len(m.rows)}

StartedInfectious(m) ==
    m.rows[m.run_from + 1].Exposed + m.rows[m.run_from + 1].Infected > 0

\* C5: a run() started with E + I > 0 begins a further step() only if the step
\* before left E + I > 0, and returns only after a step that left E = I = 0 or
\* after max_steps steps.
C5_EarlyStopExact ==
    /\ eng.in_run /\ eng.pc \in {"compute", "commit", "collect"} /\ StartedInfectious(eng)
          => LastRow(eng).Exposed + LastRow(eng).Infected > 0
    /\ eng.pc = "run_return" /\ StartedInfectious(eng) =>
          /\ \A r \in EarlierRunRows(eng) :
                eng.rows[r].Exposed + eng.rows[r].Infected > 0
          /\ \/ eng.run_done = eng.max_steps
             \/ LastRow(eng).Exposed = 0 /\ LastRow(eng).Infected = 0

\* run(3) returns after its second step, the first to end with E = I = 0
C5_Witness ==
    /\ eng.pc = "run_return"
    /\ StartedInfectious(eng)
    /\ eng.max_steps = 3 /\ eng.run_done = 2
    /\ LastRow(eng).Exposed = 0 /\ LastRow(eng).Infected = 0

C7_AtLeastOneSeed ==
    eng.pc = "idle" /\ eng.current_step = 0 =>
        /\ _count_state(eng, "I") >= 1
        /\ eng.rows[1].Infected >= 1

\* C8 (as claimed): for a distribution that passes validation,
\* get_archetype_counts returns counts that sum to the population.
C8_CountsSumToPopulation ==
    eng.pc \in {"seed", "collect0", "idle", "raised"}
      /\ eng.has_G /\ validate_archetype_distribution(eng.cfg.archetype_dist) =>
        LET result == get_archetype_counts(eng.population, eng.cfg.archetype_dist)
        IN /\ result.raised = ""
           /\ SumSeq([i \in 1..Len(result.counts) |-> result.counts[i][2]])
                = eng.population

\* C9 (as claimed): when the unknown-strategy error is raised no network has
\* been generated, no agent created and nothing drawn from the stream.
C9_UnknownStrategyFailsFirst ==
    eng.pc = "raised" /\ eng.cfg.seeding_strategy \notin KnownStrategies
      /\ eng.error = "Unknown seeding strategy" =>
        ~eng.has_G /\ eng.agents = <<>> /\ eng.pos = 0

OutOfTolerance(distribution) ==
    \/ DistTotal(distribution) - ShareScale >= ToleranceNum
    \/ ShareScale - DistTotal(distribution) >= ToleranceNum

OffendingFields(params) ==
    {f \in Range(NarrativeFields) : params[f] < 0 \/ params[f] > 100}

EverInfected(a) == a.state = "I" \/ a.infection_count > 0 \/ a.recovery_count > 0

\* C11 (as claimed): at every step boundary cumulative_infected is the number
\* of distinct agents that have been in state I since construction.
C11_CumulativeCountsDistinctAgents ==
    eng.pc = "idle" =>
        eng.cumulative_infected =
            Cardinality({i \in 1..Len(eng.agents) : EverInfected(eng.agents[i])})

\* C12: no step of the engine decreases cumulative_infected, and in the time
\* series Cumulative_Infected never decreases from one row to the next.
C12_CumulativeNonDecreasing ==
    [][/\ eng'.cumulative_infected >= eng.cumulative_infected
       /\ \A r \in 1..(Len(eng'.rows) - 1) :
             eng'.rows[r + 1].Cumulative_Infected >= eng'.rows[r].Cumulative_Infected]_vars

\* two consecutive rows in which Cumulative_Infected grew, after a step that
\* also took an agent out of I
C12_Witness ==
    /\ eng.pc = "idle"
    /\ \E r \in 1..(Len(eng.rows) - 1) :
          /\ eng.rows[r + 1].Cumulative_Infected > eng.rows[r].Cumulative_Infected
          /\ eng.rows[r + 1].Recovered > eng.rows[r].Recovered

\* C13: a run(max_steps) never executes more than max_steps steps; current_step
\* has grown by exactly the number of steps the call has executed; and when it
\* returns it has executed max_steps steps or the last step left E = I = 0.
C13_RunBoundedByMaxSteps ==
    /\ eng.in_run =>
          /\ eng.run_done <= eng.max_steps
          /\ eng.pc \in {"compute", "commit", "collect"} => eng.run_done < eng.max_steps
          /\ eng.current_step = eng.run_from + eng.run_done
    /\ eng.pc = "run_return" =>
          /\ eng.run_done <= eng.max_steps
          /\ eng.current_step = eng.run_from + eng.run_done
          /\ \/ eng.run_done = eng.max_steps
             \/ LastRow(eng).Exposed = 0 /\ LastRow(eng).Infected = 0

\* run(2) called after an earlier step returns with its two steps used up and
\* the epidemic still going
C13_Witness ==
    /\ eng.pc = "run_return"
    /\ eng.run_from = 1
    /\ eng.max_steps = 2 /\ eng.run_done = 2 /\ eng.current_step = 3
    /\ LastRow(eng).Exposed + LastRow(eng).Infected > 0

Extinct(row) == row.Exposed = 0 /\ row.Infected = 0

\* C14: after a row with E = I = 0 every later row has E = I = 0 and the same
\* Cumulative_Infected; while the last row is such a row no agent is in E or I
\* and cumulative_infected is unchanged, also in the middle of a step; and a
\* step begun with no agent in E or I changes an agent's state only from R to S.
C14_ExtinctionAbsorbing ==
    /\ \A r, q \in 1..Len(eng.rows) :
          r < q /\ Extinct(eng.rows[r]) =>
              /\ Extinct(eng.rows[q])
              /\ eng.rows[q].Cumulative_Infected = eng.rows[r].Cumulative_Infected
    /\ eng.rows # <<>> /\ Extinct(LastRow(eng)) =>
          /\ \A i \in 1..Len(eng.agents) : eng.agents[i].state \notin {"E", "I"}
          /\ eng.cumulative_infected = LastRow(eng).Cumulative_Infected
    /\ snap # <<>> /\ (\A i \in 1..Len(snap) : snap[i].state \notin {"E", "I"}) =>
          \A i \in 1..Len(eng.agents) :
              \/ eng.agents[i].state = snap[i].state
              \/ snap[i].state = "R" /\ eng.agents[i].state = "S"

\* after the row in which E and I reached 0 with recovered agents left, a later
\* step has moved an agent R -> S and another step has followed
C14_Witness ==
    /\ eng.pc = "idle"
    /\ \E r, q \in 1..Len(eng.rows) :
          /\ r < q /\ q < Len(eng.rows)
          /\ Extinct(eng.rows[r])
          /\ eng.rows[q].Susceptible > eng.rows[r].Susceptible
          /\ eng.rows[q].Recovered < eng.rows[r].Recovered

\* round(num / den) for num >= 0: to the nearest integer, a half to the even one
RoundHalfEven(num, den) ==
    LET q == num \div den
        twice == 2 * (num % den)
    IN IF twice < den THEN q
       ELSE IF twice > den THEN q + 1
       ELSE IF q % 2 = 0 THEN q ELSE q + 1

JustConstructed(m) == m.pc = "idle" /\ m.current_step = 0

SeededAgents(m) == {i \in 1..Len(m.agents) : m.agents[i].state = "I"}

\* C15 (as claimed): under random and hub_targeted exactly
\* max(1, round(population * p0)) agents are in I after construction and every
\* other agent is in S.
C15_SeedCountRounded ==
    JustConstructed(eng) /\ eng.seeding_strategy \in {"random", "hub_targeted"} =>
        /\ Cardinality(SeededAgents(eng)) =
              Max(1, RoundHalfEven(eng.population * eng.narrative.initial_seeding, 100))
        /\ \A i \in 1..Len(eng.agents) : eng.agents[i].state \in {"I", "S"}

\* C15 (amended): under random and hub_targeted exactly
\* max(1, int(population * p0)) agents, the product truncated toward zero, are
\* in I after construction and every other agent is in S.
C15_SeedCountTruncated ==
    JustConstructed(eng) /\ eng.seeding_strategy \in {"random", "hub_targeted"} =>
        /\ Cardinality(SeededAgents(eng)) =
              Max(1, (eng.population * eng.narrative.initial_seeding) \div 100)
        /\ \A i \in 1..Len(eng.agents) : eng.agents[i].state \in {"I", "S"}

\* population 3 with p0 = 0.5 under hub_targeted: 1.5 is truncated to one seed
C15_Witness ==
    /\ JustConstructed(eng)
    /\ eng.seeding_strategy = "hub_targeted"
    /\ eng.population = 3 /\ eng.narrative.initial_seeding = 50
    /\ Cardinality(SeededAgents(eng)) = 1
    /\ _count_state(eng, "S") = 2

\* the unique_ids of the agents in I
SeededIds(m) == {m.agents[i].unique_id : i \in SeededAgents(m)}

\* node a comes before node b in the ranking by degree descending, id ascending
RanksBefore(m, a, b) ==
    \/ degree(m.G, a) > degree(m.G, b)
    \/ degree(m.G, a) = degree(m.G, b) /\ a < b

\* C16: under hub_targeted the seeded agents are n_seed nodes of the network,
\* every seeded node comes before every unseeded node in the ranking by degree
\* descending and id ascending, and the selection has drawn nothing from the
\* random stream.
C16_HubTargetedTopByDegree ==
    eng.seeding_strategy = "hub_targeted" /\ eng.pc \in {"collect0", "idle"}
      /\ eng.current_step = 0 =>
        LET nodes == 0..(eng.population - 1)
        IN /\ SeededIds(eng) \subseteq nodes
           /\ Cardinality(SeededIds(eng)) =
                 Max(1, (eng.population * eng.narrative.initial_seeding) \div 100)
           /\ \A s \in SeededIds(eng) : \A u \in nodes \ SeededIds(eng) :
                 RanksBefore(eng, s, u)
           /\ eng.pos = 0 /\ tape = <<>>

\* three nodes, two seeds: the hub is node 1, and of nodes 0 and 2, both of
\* degree 1, node 0 is seeded
C16_Witness ==
    /\ JustConstructed(eng)
    /\ eng.seeding_strategy = "hub_targeted"
    /\ eng.population = 3
    /\ SeededIds(eng) = {0, 1}
    /\ degree(eng.G, 1) = 2 /\ degree(eng.G, 0) = 1 /\ degree(eng.G, 2) = 1

\* the agents of an archetype
Pool(m, archetype) == {i \in 1..Len(m.agents) : m.agents[i].archetype = archetype}

\* an archetype's part of n seeds by its static share in ARCHETYPES
StaticAllocation(n, archetype) == (n * ARCHETYPES[archetype].distribution) \div ShareScale

\* C17 (as claimed): under archetype_proportional each archetype has
\* min(its allocation by static share, size of its pool) agents in I, and when
\* no allocation exceeds its pool the allocations add up to n_seed.
C17_ProportionalAllocationSumsToNSeed ==
    JustConstructed(eng) /\ eng.seeding_strategy = "archetype_proportional" =>
        LET n == Max(1, (eng.population * eng.narrative.initial_seeding) \div 100)
            size(a) == Cardinality(Pool(eng, a))
        IN /\ \A a \in ArchetypeNames :
                 Cardinality(Pool(eng, a) \cap SeededAgents(eng)) =
                     Min(StaticAllocation(n, a), size(a))
           /\ (\A a \in ArchetypeNames : StaticAllocation(n, a) <= size(a)) =>
                 SumSeq([k \in 1..Len(ArchetypeOrder) |->
                            StaticAllocation(n, ArchetypeOrder[k])]) = n

\* C18: right after construction cumulative_infected is the number of agents
\* in I, every other agent is in S with all its counters 0, and the one row of
\* the time series records these numbers.
C18_SeedsCountedOnce ==
    JustConstructed(eng) =>
        /\ eng.cumulative_infected = Cardinality(SeededAgents(eng))
        /\ \A i \in (1..Len(eng.agents)) \ SeededAgents(eng) :
              LET a == eng.agents[i]
              IN /\ a.state = "S"
                 /\ a.infection_count = 0 /\ a.recovery_count = 0 /\ a.relapse_count = 0
                 /\ a.time_in_I = 0 /\ a.current_I_duration = 0
        /\ Len(eng.rows) = 1
        /\ eng.rows[1].Infected = Cardinality(SeededAgents(eng))
        /\ eng.rows[1].Cumulative_Infected = Cardinality(SeededAgents(eng))
        /\ eng.rows[1].Susceptible = Len(eng.agents) - Cardinality(SeededAgents(eng))
        /\ eng.rows[1].Exposed = 0 /\ eng.rows[1].Recovered = 0

\* three agents, two of them sampled as seeds by the random policy
C18_Witness ==
    /\ JustConstructed(eng)
    /\ eng.seeding_strategy = "random"
    /\ Len(eng.agents) = 3
    /\ Cardinality(SeededAgents(eng)) = 2
    /\ eng.cumulative_infected = 2
    /\ eng.rows[1].Susceptible = 1

\* the position, in the distribution's order, of the first archetype among
\* those with the largest share
LargestShare(distribution) ==
    CHOOSE k \in 1..Len(distribution) :
        /\ \A j \in 1..Len(distribution) : distribution[j][2] <= distribution[k][2]
        /\ \A j \in 1..(k - 1) : distribution[j][2] < distribution[k][2]

\* C19 (as claimed): when get_archetype_counts returns, every archetype but the
\* one with the largest share has floor(population * share), and that one has
\* its floor plus the whole residual.
C19_ResidualToLargestShare ==
    eng.pc \in {"seed", "collect0", "idle"} /\ eng.current_step = 0 =>
        LET distribution == eng.cfg.archetype_dist
            result == get_archetype_counts(eng.population, distribution)
            floor(k) == (eng.population * distribution[k][2]) \div ShareScale
            residual == eng.population - SumSeq([k \in 1..Len(distribution) |-> floor(k)])
        IN result.raised = "" =>
              \A k \in 1..Len(distribution) :
                  /\ result.counts[k][1] = distribution[k][1]
                  /\ result.counts[k][2] =
                        IF k = LargestShare(distribution)
                        THEN floor(k) + residual ELSE floor(k)

\* the engine without the position of its caller and the value being returned
Attributes(m) == [m EXCEPT !.pc = "idle", !.ret = NoReturn]

\* C20: a call of calculate_R0, from its entry to its return, leaves every
\* attribute of the engine (agents, counters, cumulative_infected,
\* current_step, time series, graph, stream position) and the random stream as
\* they were, so the state after the call is the state before it.
C20_CalculateR0ChangesNothing ==
    [][eng'.pc = "calculate_R0" \/ eng.pc = "calculate_R0" =>
          /\ Attributes(eng') = Attributes(eng)
          /\ tape' = tape]_vars

\* calculate_R0 is returning a finite value between two steps of a run in which
\* agents have moved and draws have been made
C20_Witness ==
    /\ eng.pc = "calculate_R0"
    /\ eng.ret.R0 = "finite"
    /\ eng.current_step = 1 /\ eng.pos > 1
    /\ eng.rows[2] # eng.rows[1]

\* C21 (as claimed): calculate_R0 returns a finite R0 when the mean of gamma is
\* greater than 0, and when it is 0 an infinite infectious period and an
\* infinite R0, whatever the means of alpha and sigma.
C21_R0FiniteOrInfinite ==
    eng.pc = "calculate_R0" =>
        /\ eng.error = ""
        /\ eng.ret.mean_gamma[1] > 0 =>
              /\ eng.ret.R0 = "finite"
              /\ eng.ret.infectious_period[2] > 0
        /\ eng.ret.mean_gamma[1] = 0 =>
              /\ eng.ret.infectious_period = <<1, 0>>
              /\ eng.ret.R0 = "inf"

\* C22: at every step boundary max_infected is a value of the Infected column
\* that no row exceeds, max_infected_pct is that value over the population, and
\* time_to_peak is the index (row 0 first) of a row holding it with every
\* earlier row strictly below it.
C22_PeakMetrics ==
    eng.pc = "idle" =>
        LET metrics == get_peak_metrics(eng)
            peak == metrics.time_to_peak + 1
        IN /\ \A r \in 1..Len(eng.rows) : eng.rows[r].Infected <= metrics.max_infected
           /\ peak \in 1..Len(eng.rows)
           /\ eng.rows[peak].Infected = metrics.max_infected
           /\ \A q \in 1..(peak - 1) : eng.rows[q].Infected < metrics.max_infected
           /\ metrics.max_infected_pct = <<metrics.max_infected, eng.population>>

\* the maximum is reached after row 0 and held by two rows: time_to_peak is the
\* first of them
C22_Witness ==
    /\ eng.pc = "idle"
    /\ \E r, q \in 2..Len(eng.rows) :
          /\ r < q
          /\ get_peak_metrics(eng).time_to_peak = r - 1
          /\ eng.rows[q].Infected = eng.rows[r].Infected
          /\ eng.rows[1].Infected < eng.rows[r].Infected

\* where a step() stands: in the compute pass no agent from idx on has a
\* candidate; in the commit pass every agent from idx on has one and none
\* before idx has; after it none has and the row is not yet appended; at a
\* step boundary the time series has current_step + 1 rows and its last row
\* describes the population as it is
StepInOrder(m) ==
    /\ m.pc = "compute" =>
          /\ \A i \in m.idx..Len(m.agents) : m.agents[i].next_state = "None"
          /\ \A i \in 1..(m.idx - 1) : m.agents[i].next_state \in States
          /\ Len(m.rows) = m.current_step + 1
    /\ m.pc = "commit" =>
          /\ \A i \in m.idx..Len(m.agents) : m.agents[i].next_state \in States
          /\ \A i \in 1..(m.idx - 1) : m.agents[i].next_state = "None"
          /\ Len(m.rows) = m.current_step + 1
    /\ m.pc = "collect" =>
          /\ \A i \in 1..Len(m.agents) : m.agents[i].next_state = "None"
          /\ Len(m.rows) = m.current_step + 1
    /\ m.pc \in {"idle", "run_check", "run_return"} =>
          /\ Len(m.rows) = m.current_step + 1
          /\ LastRow(m) = Row(m)
    /\ m.pc = "run_return" => Len(m.rows) <= m.run_from + m.max_steps + 1

\* C23: every transition leaves the engine at a point of the order compute
\* pass, commit pass, one row appended, counter incremented; rows already
\* recorded are never changed and at most one row is appended at a time; so row
\* i is the population after i steps, a step boundary has current_step + 1
\* rows, and a run(max_steps) adds at most max_steps rows.
C23_StepOrderAndRowCount ==
    [][/\ StepInOrder(eng')
       /\ Len(eng'.rows) \in {Len(eng.rows), Len(eng.rows) + 1}
       /\ SubSeq(eng'.rows, 1, Len(eng.rows)) = eng.rows
       /\ eng'.current_step \in {eng.current_step, eng.current_step + 1}
       /\ eng'.current_step = eng.current_step + 1 =>
             /\ eng.pc = "collect"
             /\ Len(eng'.rows) = Len(eng.rows) + 1]_vars

\* the commit pass of the second step is over and its row, which will differ
\* from the last one, is not yet appended
C23_Witness ==
    /\ eng.pc = "collect"
    /\ eng.current_step = 1 /\ Len(eng.rows) = 2
    /\ Row(eng) # LastRow(eng)

\* C24: for every agent with traits in [0, 1], every narrative and every base
\* rate, _calculate_omega returns a value in [0, 0.2].
C24_OmegaAtMostOneFifth ==
    eng.pc = "rates" => 0 <= eng.omega /\ 5 * eng.omega <= PScale

\* a base rate of 3.0 and the traits that make relapse most likely: omega is
\* held at 0.2
C24_Witness ==
    /\ eng.pc = "rates"
    /\ eng.omega_base = 300
    /\ eng.agent.institutional_trust = 0 /\ eng.agent.need_for_cognition = 0
    /\ eng.agent.identity_alignment = 20 /\ eng.narrative.identity_weight = 100
    /\ 5 * eng.omega = PScale

\* C25: alpha, sigma, gamma and the compound exposure probability p for
\* k >= 1 infected neighbours are in [0, 1], and p does not decrease when k
\* grows.
C25_ProbabilitiesInUnitInterval ==
    [][eng'.pc = "rates" =>
          /\ \A x \in {eng'.alpha, eng'.sigma, eng'.gamma, eng'.p} : 0 <= x /\ x <= PScale
          /\ eng'.k >= 1
          /\ eng.pc = "rates" => eng'.k = eng.k + 1 /\ eng'.p >= eng.p]_vars

\* three infected neighbours, an alpha strictly between 0 and 1, and a p that is
\* larger than alpha and below 1
C25_Witness ==
    /\ eng.pc = "rates"
    /\ eng.k = 3
    /\ 0 < eng.alpha /\ eng.alpha < PScale
    /\ eng.alpha < eng.p /\ eng.p < PScale
    /\ eng.sigma = PScale

\* the five history counters of an agent
Counters(a) ==
    <<a.infection_count, a.recovery_count, a.relapse_count,
      a.time_in_I, a.current_I_duration>>

\* C26: on commit, entering I adds exactly one to infection_count and to
\* cumulative_infected; I->R adds one to recovery_count only; R->S adds one to
\* relapse_count only; staying in S, E or R, or moving S->E, changes no counter
\* and leaves cumulative_infected alone.
C26_CommitBookkeeping ==
    [][eng.pc = "commit" =>
          LET a == eng.agents[eng.idx]
              b == eng'.agents[eng.idx]
              kept == eng'.cumulative_infected = eng.cumulative_infected
          IN /\ a.state # "I" /\ b.state = "I" =>
                   /\ b.infection_count = a.infection_count + 1
                   /\ eng'.cumulative_infected = eng.cumulative_infected + 1
                   /\ b.recovery_count = a.recovery_count
                   /\ b.relapse_count = a.relapse_count
             /\ a.state = "I" /\ b.state = "R" =>
                   Counters(b) = [Counters(a) EXCEPT ![2] = @ + 1] /\ kept
             /\ a.state = "R" /\ b.state = "S" =>
                   Counters(b) = [Counters(a) EXCEPT ![3] = @ + 1] /\ kept
             /\ \/ a.state = b.state /\ a.state \in {"S", "E", "R"}
                \/ a.state = "S" /\ b.state = "E"
                => Counters(b) = Counters(a) /\ kept]_vars

\* every kind of commit has happened in one run: an agent has recovered and
\* relapsed, another has been exposed and entered I
C26_Witness ==
    /\ eng.has_G
    /\ \E i \in 1..Len(eng.agents) :
          eng.agents[i].recovery_count = 1 /\ eng.agents[i].relapse_count = 1
    /\ \E i \in 1..Len(eng.agents) :
          eng.agents[i].infection_count = 1 /\ eng.cumulative_infected >= 2

\* C27 as stated: entering I leaves current_I_duration at 0 and time_in_I as it
\* was, I->I adds one to both, and no other commit changes either.
C27_DurationZeroAfterEntering ==
    [][eng.pc = "commit" =>
          LET a == eng.agents[1]
              b == eng'.agents[1]
          IN /\ a.state # "I" /\ b.state = "I" =>
                   b.current_I_duration = 0 /\ b.time_in_I = a.time_in_I
             /\ a.state = "I" /\ b.state = "I" =>
                   /\ b.time_in_I = a.time_in_I + 1
                   /\ b.current_I_duration = a.current_I_duration + 1
             /\ b.state # "I" =>
                   /\ b.time_in_I = a.time_in_I
                   /\ b.current_I_duration = a.current_I_duration]_vars

\* C27, amended: on the commit in which an agent enters I its
\* current_I_duration is reset and then counted, so that it is 1 right after
\* that commit, and its time_in_I is incremented by one; on every I->I commit
\* both are incremented by one; a commit that ends in another state changes
\* neither.
C27_DurationOneAfterEntering ==
    [][eng.pc = "commit" =>
          LET a == eng.agents[1]
              b == eng'.agents[1]
          IN /\ a.state # "I" /\ b.state = "I" =>
                   b.current_I_duration = 1 /\ b.time_in_I = a.time_in_I + 1
             /\ a.state = "I" /\ b.state = "I" =>
                   /\ b.time_in_I = a.time_in_I + 1
                   /\ b.current_I_duration = a.current_I_duration + 1
             /\ b.state # "I" =>
                   /\ b.time_in_I = a.time_in_I
                   /\ b.current_I_duration = a.current_I_duration]_vars

\* an agent that has just entered I again after a spell of two steps
C27_Witness ==
    /\ eng.pc = "compute"
    /\ eng.current_step >= 1
    /\ LET a == eng.agents[1]
       IN /\ a.state = "I"
          /\ a.recovery_count = 1 /\ a.relapse_count = 1
          /\ a.time_in_I = 3
          /\ a.current_I_duration = 1

\* C28: an agent in S moves to E in a step only if a neighbour was in I when the
\* step began; with no such neighbour it stays S and consumes nothing from the
\* random stream; with k >= 1 of them it takes one draw, compared with
\* 1 - (1 - alpha)^k for that k, whatever those neighbours have decided or do in
\* the same step.
C28_ExposureFromStartOfStep ==
    [][/\ eng.pc = "compute" /\ snap[eng.idx].state = "S" =>
             LET i == eng.idx
                 k == Cardinality(InfectedAtStart(eng, snap, snap[i]))
                 alpha == _calculate_alpha(snap[i], eng.narrative)
                 nxt == eng'.agents[i].next_state
             IN /\ k = 0 => nxt = "S" /\ eng'.pos = eng.pos /\ tape' = tape
                /\ k >= 1 =>
                      /\ eng'.pos = eng.pos + 1
                      /\ nxt = IF tape'[eng'.pos].u < p_exposure(alpha, k)
                               THEN "E" ELSE "S"
       /\ eng.pc = "collect" =>
             \A i \in 1..Len(eng.agents) :
                 snap[i].state = "S" =>
                     /\ eng.agents[i].state \in {"S", "E"}
                     /\ eng.agents[i].state = "E" =>
                            InfectedAtStart(eng, snap, snap[i]) # {}]_vars

\* in the first step an agent was exposed while the only infected agent
\* recovered; in the second that agent entered I and its other neighbour, whose
\* only neighbour it is, stayed S
C28_Witness ==
    /\ eng.pc = "collect"
    /\ Len(eng.rows) = 2
    /\ eng.rows[1].Infected = 1
    /\ eng.rows[2].Infected = 0 /\ eng.rows[2].Exposed = 1 /\ eng.rows[2].Recovered = 1
    /\ \E i, j \in 1..Len(eng.agents) :
          /\ neighbors(eng.G, eng.agents[i].unique_id) = {eng.agents[j].unique_id}
          /\ snap[i].state = "S" /\ eng.agents[i].state = "S"
          /\ snap[j].state = "E" /\ eng.agents[j].state = "I"

\* C29: outside the compute and commit passes of a step (after construction and
\* after every step) every agent's next_state is null; inside a step it is
\* non-null exactly for the agents that have computed and not yet committed.
C29_NextStateOnlyInsideStep ==
    \A i \in 1..Len(eng.agents) :
        LET pending == eng.agents[i].next_state # "None"
        IN /\ eng.pc \notin {"compute", "commit"} => ~pending
           /\ eng.pc = "compute" => (pending <=> i < eng.idx)
           /\ eng.pc = "commit" => (pending <=> i >= eng.idx)
           /\ pending => eng.agents[i].next_state \in States

\* in a second step, the first agent has committed and is cleared again while
\* the second still holds its candidate
C29_Witness ==
    /\ eng.pc = "commit"
    /\ eng.current_step = 1
    /\ eng.idx = 2
    /\ eng.agents[1].next_state = "None"
    /\ eng.agents[1].state # snap[1].state
    /\ eng.agents[2].next_state \in States

\* what construction fixes: the graph, the population, the narrative, the base
\* rates, and every agent's id, archetype and traits
Structure(m) ==
    <<m.has_G, m.G, m.population, Len(m.agents), m.narrative,
      m.sigma_base, m.gamma_base, m.omega_base,
      [i \in 1..Len(m.agents) |->
          <<m.agents[i].unique_id, m.agents[i].archetype,
            m.agents[i].need_for_cognition, m.agents[i].institutional_trust,
            m.agents[i].confirmation_bias, m.agents[i].identity_alignment>>]>>

\* C30: once constructed, no step of step(), run() or calculate_R0() changes the
\* graph, the set of agents, the narrative, the base rates or any agent's id,
\* archetype or traits; a commit changes only the committing agent's own fields
\* and cumulative_infected, and the fields of every other agent stay as they are.
C30_StructureReadOnly ==
    [][Constructed(eng) =>
          /\ Constructed(eng')
          /\ Structure(eng') = Structure(eng)
          /\ eng.pc = "commit" =>
                /\ \A j \in 1..Len(eng.agents) :
                      j # eng.idx => eng'.agents[j] = eng.agents[j]
                /\ [eng' EXCEPT !.agents = eng.agents,
                                !.cumulative_infected = eng.cumulative_infected,
                                !.pc = eng.pc, !.idx = eng.idx] = eng]_vars

\* calculate_R0 is returning after two steps in which an agent entered I next
\* to a neighbour that was still susceptible when it committed
C30_Witness ==
    /\ eng.pc = "calculate_R0"
    /\ eng.current_step = 2
    /\ \E i, j \in 1..Len(eng.agents) :
          /\ eng.agents[j].unique_id \in neighbors(eng.G, eng.agents[i].unique_id)
          /\ eng.agents[i].state = "I" /\ eng.agents[i].infection_count = 1
          /\ eng.agents[i].current_I_duration = 1
          /\ eng.agents[j].state = "S" /\ eng.agents[j].relapse_count = 0

\* C31 (as claimed): at every step boundary an agent has infection_count > 0
\* exactly when it has been in state I at some time since construction, initial
\* seeding included.
C31_InfectionCountMarksEverInfected ==
    eng.pc = "idle" =>
        \A i \in 1..Len(eng.agents) :
            eng.agents[i].infection_count > 0 <=> EverInfected(eng.agents[i])

\* C32 (as claimed): for a distribution that passes validation every count
\* returned by get_archetype_counts is >= 0 and the engine creates exactly
\* `population` agents with the ids 0 .. population - 1, which are the nodes of
\* the network.
C32_OneAgentPerNode ==
    eng.pc \in {"seed", "collect0", "idle"} /\ eng.current_step = 0
      /\ validate_archetype_distribution(eng.cfg.archetype_dist) =>
        LET result == get_archetype_counts(eng.population, eng.cfg.archetype_dist)
        IN /\ \A k \in 1..Len(result.counts) : result.counts[k][2] >= 0
           /\ Len(eng.agents) = eng.population
           /\ \A i \in 1..Len(eng.agents) : eng.agents[i].unique_id = i - 1
           /\ UNION eng.G = 0..(eng.population - 1)

\* the agents that were seeded: in I at construction, i.e. in I in the state in
\* which row 0 was collected
NumberSeeded(m) == m.rows[1].Infected

C34_CountersOrdered ==
    eng.pc = "idle" =>
        \A i \in 1..Len(eng.agents) :
            /\ eng.agents[i].relapse_count <= eng.agents[i].recovery_count
            /\ eng.agents[i].recovery_count <= eng.agents[i].infection_count

\* C35: at every step boundary the sum of time_in_I over all agents is the sum
\* of the Infected column over rows 1 .. current_step, and at the end of each
\* commit pass every agent's time_in_I is what it was when the step began plus
\* one if the step ends with the agent in I.
C35_TimeInIMatchesInfectedRows ==
    /\ eng.pc = "idle" =>
          /\ Len(eng.rows) = eng.current_step + 1
          /\ SumSeq([i \in 1..Len(eng.agents) |-> eng.agents[i].time_in_I])
               = SumSeq([r \in 1..eng.current_step |-> eng.rows[r + 1].Infected])
    /\ eng.pc = "collect" =>
          \A i \in 1..Len(eng.agents) :
              eng.agents[i].time_in_I =
                  snap[i].time_in_I + (IF eng.agents[i].state = "I" THEN 1 ELSE 0)

\* after two steps: a seed that stayed in I for one step and an agent that
\* entered I in the second, whose entering step is counted, and row 0 left out
C35_Witness ==
    /\ eng.pc = "idle"
    /\ eng.current_step = 2
    /\ eng.rows[1].Infected >= 1
    /\ \E i, j \in 1..Len(eng.agents) :
          /\ eng.agents[i].infection_count = 0 /\ eng.agents[i].time_in_I = 1
          /\ eng.agents[i].state = "R"
          /\ eng.agents[j].infection_count = 1 /\ eng.agents[j].time_in_I = 1
          /\ eng.agents[j].state = "I"
    /\ SumSeq([i \in 1..Len(eng.agents) |-> eng.agents[i].time_in_I]) = 2

\* the engine with the same graph, narrative, base rates and agents' ids,
\* archetypes and traits, every agent as its constructor leaves it, and the
\* counters and the time series of an engine that has not run
Unrun(m) ==
    [m EXCEPT !.agents = [i \in 1..Len(m.agents) |->
                             DisinformationAgent(m.agents[i].unique_id,
                                                 m.agents[i].archetype)],
              !.cumulative_infected = 0,
              !.current_step = 0,
              !.rows = <<>>,
              !.pos = 0]

\* C36: at every point of a run calculate_R0 returns the R0 and the components
\* it would return on the engine that has not run: the value depends only on
\* the agents' traits, the narrative, the base rates and the graph, not on any
\* agent's state, on the counters or on the step counter.
C36_R0SameThroughoutRun ==
    eng.pc = "calculate_R0" => eng.ret = R0Value(Unrun(eng))

\* calculate_R0 is returning after three steps, with one agent recovered, one
\* infected in a step and nobody susceptible any more
C36_Witness ==
    /\ eng.pc = "calculate_R0"
    /\ eng.ret.R0 = "finite"
    /\ eng.current_step = 3
    /\ \E i, j \in 1..Len(eng.agents) :
          /\ eng.agents[i].recovery_count = 1 /\ eng.agents[i].state = "R"
          /\ eng.agents[j].infection_count = 1 /\ eng.agents[j].state = "I"
    /\ \A i \in 1..Len(eng.agents) : eng.agents[i].state # "S"

====
